---- MODULE Spec2Model ----
(***************************************************************************)
(* State-machine model of src/index.ts: the getWeather tool, the five      *)
(* flows (vertexAIExplanationFlow, vertexAIExplanationImageFlow,           *)
(* list-models, weatherFlow, recipeGeneratorFlow), exampleWeatherChat and  *)
(* the entry point main().catch(console.error).                            *)
(*                                                                         *)
(* Strings are sequences of tokens (TLA+ strings); the empty string is     *)
(* <<>>.  Model names are sequences of single characters, because the      *)
(* list-models flow splits them on "/" and searches them for substrings.   *)
(* An optional value (a JS value that may be undefined or null) is a       *)
(* sequence of length at most one: None is <<>>, Some(v) is <<v>>.         *)
(***************************************************************************)
EXTENDS Integers, Sequences, FiniteSets, TLC

VARIABLES
  flow,      \* the flow (or exampleWeatherChat) of the current invocation
  pc,        \* its position: "idle", "awaiting", "done" or "failed"
  inv,       \* number of invocations made so far; the current one's id
  input,     \* Some(argument record) of the current invocation
  weather,   \* Some(what the last getWeather invocation returned)
  response,  \* Some(what the last remote call resolved with)
  result,    \* [value, error]: what the invocation returned or threw
  calls,     \* the remote calls issued so far, oldest first
  toolCalls, \* getWeather invocations made by the model during the chat
  mainPc,    \* position of main(): "init", "explain", "recipe", "chat", "exited"
  stdout,    \* console.log lines written so far
  stderr,    \* console.error lines written so far
  exitCode   \* Some(exit status) once the process has ended

vars == <<flow, pc, inv, input, weather, response, result, calls, toolCalls,
          mainPc, stdout, stderr, exitCode>>

----------------------------------------------------------------------------
(* Bounds of the model *)

\* Math.random() yields k / RandomGrid for k in 0 .. RandomGrid - 1
RandomGrid == 32
\* a model name is the concatenation of at most MaxTokens of NameTokens
MaxTokens == 3
\* plugin.list() resolves with at most MaxCatalog entries
MaxCatalog == 1
\* the model invokes getWeather at most MaxToolCalls times during one chat
MaxToolCalls == 1

----------------------------------------------------------------------------
(* Values *)

None == <<>>
Some(v) == <<v>>

\* a || d for an optional string a: d when a is undefined or the empty string
OrElse(a, d) == IF a # None /\ a[1] # <<>> THEN a[1] ELSE d

Slash == <<"/">>
Flash == <<"f", "l", "a", "s", "h">>
Vision == <<"v", "i", "s", "i", "o", "n">>
Pro == <<"p", "r", "o">>
NotAvailable == <<"N", "/", "A">>

NameTokens == {Slash, Flash, Vision, Pro}

RECURSIVE NamesOfLength(_)
NamesOfLength(n) ==
  IF n = 0 THEN {<<>>}
  ELSE {t \o s : t \in NameTokens, s \in NamesOfLength(n - 1)}

\* the names plugin.list() may report
ModelNames == UNION {NamesOfLength(n) : n \in 0 .. MaxTokens}

RECURSIVE SeqsUpTo(_, _)
SeqsUpTo(S, n) ==
  IF n = 0 THEN {<<>>}
  ELSE LET shorter == SeqsUpTo(S, n - 1)
       IN shorter \cup {Append(s, x) : s \in {q \in shorter : Len(q) = n - 1}, x \in S}

\* what plugin.list() may resolve with: a list of { name } entries
Catalogs == SeqsUpTo([name : ModelNames], MaxCatalog)

----------------------------------------------------------------------------
(* Pure functions of the source *)

\* index of the first c in s at or after position i, 0 when there is none
RECURSIVE IndexFrom(_, _, _)
IndexFrom(s, c, i) ==
  IF i > Len(s) THEN 0
  ELSE IF s[i] = c THEN i
  ELSE IndexFrom(s, c, i + 1)

\* String.prototype.split with a one-character separator
RECURSIVE split(_, _)
split(s, sep) ==
  LET i == IndexFrom(s, sep, 1)
  IN IF i = 0 THEN <<s>>
     ELSE <<SubSeq(s, 1, i - 1)>> \o split(SubSeq(s, i + 1, Len(s)), sep)

\* String.prototype.includes: scan the start positions left to right
RECURSIVE includesFrom(_, _, _)
includesFrom(s, sub, i) ==
  IF i + Len(sub) - 1 > Len(s) THEN FALSE
  ELSE IF SubSeq(s, i, i + Len(sub) - 1) = sub THEN TRUE
  ELSE includesFrom(s, sub, i + 1)

includes(s, sub) == includesFrom(s, sub, 1)

getModelInfoFirstPart(model) ==
  LET nameParts == split(model.name, "/")
      modelId == nameParts[1]
  IN [label |-> modelId,
      versions |-> <<>>,
      supports |-> [text |-> TRUE,
                    image |-> includes(modelId, Vision) \/ includes(modelId, Flash),
                    audio |-> FALSE]]

getModelInfoFlashOnly(model) ==
  LET nameParts == split(model.name, "/")
      modelId == nameParts[Len(nameParts)]
  IN [label |-> modelId,
      versions |-> <<>>,
      supports |-> [text |-> TRUE,
                    image |-> includes(modelId, Flash),
                    audio |-> FALSE]]

\* the helper of the list-models flow
getModelInfo(model) ==
  LET nameParts == split(model.name, "/")
      last == nameParts[Len(nameParts)]
      modelId == IF last # <<>> THEN last ELSE <<>>
  IN [label |-> modelId,
      versions |-> <<>>,
      supports |-> [text |-> TRUE,
                    image |-> includes(modelId, Vision) \/ includes(modelId, Flash),
                    audio |-> FALSE]]

\* the record listedModels.map builds for one catalog entry
ListedModel(m) ==
  LET modelInfo == getModelInfo(m)
  IN [name |-> m.name,
      label |-> IF modelInfo.label # <<>> THEN modelInfo.label ELSE NotAvailable,
      versions |-> modelInfo.versions,
      supports |-> modelInfo.supports]

\* what the list-models flow returns for the catalog plugin.list() gave
ListModelsOutput(listedModels) ==
  [listedModelsCount |-> Len(listedModels),
   allListedModels |-> [i \in 1 .. Len(listedModels) |-> ListedModel(listedModels[i])]]

conditions == <<"sunny", "cloudy", "rainy", "snowy">>

\* Math.floor(r * n) for the random number r = k / RandomGrid
FloorOfRandomTimes(k, n) == (k * n) \div RandomGrid

getWeatherScaledBy31(location, r1, r2) ==
  [temperature |-> FloorOfRandomTimes(r1, 31) + 50,
   condition |-> conditions[FloorOfRandomTimes(r2, Len(conditions)) + 1]]

\* the handler of the getWeather tool; r1, r2 are its two Math.random() draws
getWeather(location, r1, r2) ==
  [temperature |-> FloorOfRandomTimes(r1, 30) + 50,
   condition |-> conditions[FloorOfRandomTimes(r2, Len(conditions)) + 1]]

Digits == <<"0", "1", "2", "3", "4", "5", "6", "7", "8", "9">>

\* the decimal digits a template literal writes for a non-negative integer
RECURSIVE NumberToString(_)
NumberToString(n) ==
  IF n < 10 THEN <<Digits[n + 1]>>
  ELSE Append(NumberToString(n \div 10), Digits[(n % 10) + 1])

\* the prompt weatherFlow sends to the model ("deg-F." is the token of the
\* degree sign followed by F and a full stop)
WeatherPrompt(location, w) ==
  <<"The", "weather", "in">> \o location \o <<"is", w.condition>>
    \o <<"with", "a", "temperature", "of">> \o NumberToString(w.temperature)
    \o <<"deg-F.", "Create", "a", "friendly,", "conversational", "message",
         "about", "this", "weather.">>

\* the sentence weatherFlow falls back to
WeatherSentence(location, w) ==
  <<"The", "weather", "in">> \o location \o <<"is", w.condition>>
    \o <<"with", "a", "temperature", "of">> \o NumberToString(w.temperature)
    \o <<"deg-F.">>

WeatherFlowOutputNoFallback(in, w, text) ==
  [location |-> in.location,
   temperature |-> w.temperature,
   condition |-> w.condition,
   message |-> IF text # None THEN text[1] ELSE <<>>]

WeatherFlowOutputOffByOne(in, w, text) ==
  [location |-> in.location,
   temperature |-> w.temperature + 1,
   condition |-> w.condition,
   message |-> OrElse(text, WeatherSentence(in.location, w))]

\* the record weatherFlow returns
WeatherFlowOutput(in, w, text) ==
  [location |-> in.location,
   temperature |-> w.temperature,
   condition |-> w.condition,
   message |-> OrElse(text, WeatherSentence(in.location, w))]

\* the prompt recipeGeneratorFlow sends to the model
RecipePrompt(in) ==
  <<"Create", "a", "recipe", "with", "the", "following", "requirements:",
    "Main", "ingredient:">> \o in.ingredient
    \o <<"Dietary", "restrictions:">> \o OrElse(in.dietaryRestrictions, <<"none">>)

ExplanationDefaultPrompt == <<"Explain", "Vertex", "AI", "in", "simple", "terms.">>
ImageDefaultPrompt == <<"Explain", "the", "image", "in", "simple", "terms.">>

ExplanationModel == "vertexai/gemini-3-pro-preview"
ImageModel == "vertexai/gemini-3-pro-image-preview"
DefaultModel == "googleai/gemini-2.5-flash"

\* the generate request of vertexAIExplanationFlow
ExplanationRequest(in) ==
  [kind |-> "generate", model |-> ExplanationModel,
   prompt |-> OrElse(in.prompt, ExplanationDefaultPrompt),
   schema |-> FALSE, tools |-> {}]

ImageRequestExplanationDefault(in) ==
  [kind |-> "generate", model |-> ImageModel,
   prompt |-> OrElse(in.prompt, ExplanationDefaultPrompt),
   schema |-> FALSE, tools |-> {}]

\* the generate request of vertexAIExplanationImageFlow
ImageRequest(in) ==
  [kind |-> "generate", model |-> ImageModel,
   prompt |-> OrElse(in.prompt, ImageDefaultPrompt),
   schema |-> FALSE, tools |-> {}]

\* the record both explanation flows return
ExplanationOutput(resp) == [text |-> OrElse(resp.text, <<>>)]

\* the generate request of weatherFlow
WeatherRequest(in, w) ==
  [kind |-> "generate", model |-> DefaultModel,
   prompt |-> WeatherPrompt(in.location, w),
   schema |-> FALSE, tools |-> {}]

\* the generate request of recipeGeneratorFlow
RecipeRequest(in) ==
  [kind |-> "generate", model |-> DefaultModel,
   prompt |-> RecipePrompt(in),
   schema |-> TRUE, tools |-> {}]

\* the generate request of exampleWeatherChat
ChatRequest ==
  [kind |-> "generate", model |-> DefaultModel,
   prompt |-> <<"What", "is", "the", "weather", "like", "in", "San", "Francisco?">>,
   schema |-> FALSE, tools |-> {"getWeather"}]

\* the plugin.list() call of the list-models flow
ListRequest ==
  [kind |-> "list", model |-> "googleai", prompt |-> <<>>,
   schema |-> FALSE, tools |-> {}]

NoListMethod == <<"Plugin", "does", "not", "have", "a", "list", "method">>
FailedToGenerate == <<"Failed", "to", "generate", "recipe">>

Returned(v) == [value |-> Some(v), error |-> None]
Thrown(e) == [value |-> None, error |-> Some(e)]
Pending == [value |-> None, error |-> None]

RecipeSettleNoCheck(output) ==
  [pc |-> "done", result |-> [value |-> output, error |-> None]]

\* how recipeGeneratorFlow ends once generate resolved with `output`
RecipeSettle(output) ==
  IF output = None
  THEN [pc |-> "failed", result |-> Thrown(FailedToGenerate)]
  ELSE [pc |-> "done", result |-> Returned(output[1])]

----------------------------------------------------------------------------
(* Inputs and what the remote service may answer *)

Flows == {"vertexAIExplanationFlow", "vertexAIExplanationImageFlow",
          "list-models", "weatherFlow", "recipeGeneratorFlow"}

Prompts == {None, Some(<<>>), Some(<<"Explain", "Genkit.">>)}
Locations == {<<>>, <<"Paris">>}
Restrictions == {None, Some(<<>>), Some(<<"vegetarian">>)}

InputsOf(f) ==
  CASE f \in {"vertexAIExplanationFlow", "vertexAIExplanationImageFlow"} ->
         {Some([prompt |-> p]) : p \in Prompts}
    [] f = "list-models" -> {None}
    [] f = "weatherFlow" -> {Some([location |-> l]) : l \in Locations}
    [] f = "recipeGeneratorFlow" ->
         {Some([ingredient |-> <<"avocado">>, dietaryRestrictions |-> d]) :
            d \in Restrictions}

\* response.text of a generate call
Texts == {None, Some(<<>>), Some(<<"Hello.">>)}

Guacamole ==
  [title |-> <<"Guacamole">>, description |-> <<"A", "dip">>,
   prepTime |-> <<"10", "min">>, cookTime |-> <<"0", "min">>, servings |-> 2,
   ingredients |-> <<<<"avocado">>, <<"lime">>>>,
   instructions |-> <<<<"Mash.">>>>, tips |-> None]

Toast ==
  [title |-> <<"Avocado", "toast">>, description |-> <<>>,
   prepTime |-> <<>>, cookTime |-> <<>>, servings |-> 0,
   ingredients |-> <<>>, instructions |-> <<>>, tips |-> Some(<<>>)]

\* response.output of a generate call constrained to RecipeSchema
Outputs == {None, Some(Guacamole), Some(Toast)}

RemoteErrors == {<<"remote", "call", "failed">>}

Resolved(text, output, models) ==
  [ok |-> TRUE, text |-> text, output |-> output, models |-> models, error |-> None]
Rejected(e) ==
  [ok |-> FALSE, text |-> None, output |-> None, models |-> <<>>, error |-> Some(e)]

----------------------------------------------------------------------------
(* The state machine *)

mainVars == <<mainPc, stdout, stderr, exitCode>>

Init ==
  /\ flow = "none"
  /\ pc = "idle"
  /\ inv = 0
  /\ input = None
  /\ weather = None
  /\ response = None
  /\ result = Pending
  /\ calls = <<>>
  /\ toolCalls = 0
  /\ mainPc = "init"
  /\ stdout = <<>>
  /\ stderr = <<>>
  /\ exitCode = None

\* a caller invokes f with argument in: a new invocation, its handler not yet run
Call(f, in) ==
  /\ flow' = f
  /\ pc' = "idle"
  /\ inv' = inv + 1
  /\ input' = in
  /\ weather' = None
  /\ response' = None
  /\ result' = Pending
  /\ toolCalls' = 0

\* the handler issues the remote call req and suspends on it
Issue(req) ==
  /\ calls' = Append(calls, [inv |-> inv, flow |-> flow, req |-> req])
  /\ pc' = "awaiting"

\* an exported flow is invoked from outside the module
Invoke ==
  /\ mainPc = "init"
  /\ flow = "none"
  /\ \E f \in Flows : \E in \in InputsOf(f) : Call(f, in)
  /\ UNCHANGED <<calls, mainVars>>

vertexAIExplanationFlowStart ==
  /\ flow = "vertexAIExplanationFlow"
  /\ pc = "idle"
  /\ Issue(ExplanationRequest(input[1]))
  /\ UNCHANGED <<flow, inv, input, weather, response, result, toolCalls, mainVars>>

vertexAIExplanationFlowReturn ==
  /\ flow = "vertexAIExplanationFlow"
  /\ pc = "awaiting"
  /\ \E t \in Texts :
       /\ response' = Some(Resolved(t, None, <<>>))
       /\ result' = Returned(ExplanationOutput(response'[1]))
  /\ pc' = "done"
  /\ UNCHANGED <<flow, inv, input, weather, calls, toolCalls, mainVars>>

vertexAIExplanationImageFlowStart ==
  /\ flow = "vertexAIExplanationImageFlow"
  /\ pc = "idle"
  /\ Issue(ImageRequest(input[1]))
  /\ UNCHANGED <<flow, inv, input, weather, response, result, toolCalls, mainVars>>

vertexAIExplanationImageFlowReturn ==
  /\ flow = "vertexAIExplanationImageFlow"
  /\ pc = "awaiting"
  /\ \E t \in Texts :
       /\ response' = Some(Resolved(t, None, <<>>))
       /\ result' = Returned(ExplanationOutput(response'[1]))
  /\ pc' = "done"
  /\ UNCHANGED <<flow, inv, input, weather, calls, toolCalls, mainVars>>

\* the handler up to `await plugin.list()`; the plugin may lack a list method
listModelsStart ==
  /\ flow = "list-models"
  /\ pc = "idle"
  /\ \E hasList \in BOOLEAN :
       IF hasList
       THEN /\ Issue(ListRequest)
            /\ UNCHANGED result
       ELSE /\ pc' = "failed"
            /\ result' = Thrown(NoListMethod)
            /\ UNCHANGED calls
  /\ UNCHANGED <<flow, inv, input, weather, response, toolCalls, mainVars>>

listModelsReturn ==
  /\ flow = "list-models"
  /\ pc = "awaiting"
  /\ \E listedModels \in Catalogs :
       /\ response' = Some(Resolved(None, None, listedModels))
       /\ result' = Returned(ListModelsOutput(listedModels))
  /\ pc' = "done"
  /\ UNCHANGED <<flow, inv, input, weather, calls, toolCalls, mainVars>>

\* the handler up to `await ai.generate`: the tool is invoked, the prompt sent
weatherFlowStart ==
  /\ flow = "weatherFlow"
  /\ pc = "idle"
  /\ \E r1, r2 \in 0 .. RandomGrid - 1 :
       /\ weather' = Some(getWeather(input[1].location, r1, r2))
       /\ Issue(WeatherRequest(input[1], weather'[1]))
  /\ UNCHANGED <<flow, inv, input, response, result, toolCalls, mainVars>>

weatherFlowReturn ==
  /\ flow = "weatherFlow"
  /\ pc = "awaiting"
  /\ \E t \in Texts :
       /\ response' = Some(Resolved(t, None, <<>>))
       /\ result' = Returned(WeatherFlowOutput(input[1], weather[1], t))
  /\ pc' = "done"
  /\ UNCHANGED <<flow, inv, input, weather, calls, toolCalls, mainVars>>

recipeGeneratorFlowStart ==
  /\ flow = "recipeGeneratorFlow"
  /\ pc = "idle"
  /\ Issue(RecipeRequest(input[1]))
  /\ UNCHANGED <<flow, inv, input, weather, response, result, toolCalls, mainVars>>

recipeGeneratorFlowSettle ==
  /\ flow = "recipeGeneratorFlow"
  /\ pc = "awaiting"
  /\ \E output \in Outputs :
       /\ response' = Some(Resolved(None, output, <<>>))
       /\ pc' = RecipeSettle(output).pc
       /\ result' = RecipeSettle(output).result
  /\ UNCHANGED <<flow, inv, input, weather, calls, toolCalls, mainVars>>

exampleWeatherChatStart ==
  /\ flow = "exampleWeatherChat"
  /\ pc = "idle"
  /\ Issue(ChatRequest)
  /\ UNCHANGED <<flow, inv, input, weather, response, result, toolCalls, mainVars>>

\* while the chat's generate call is pending, the model invokes the tool it was given
exampleWeatherChatTool ==
  /\ flow = "exampleWeatherChat"
  /\ pc = "awaiting"
  /\ toolCalls < MaxToolCalls
  /\ \E l \in Locations : \E r1, r2 \in 0 .. RandomGrid - 1 :
       weather' = Some(getWeather(l, r1, r2))
  /\ toolCalls' = toolCalls + 1
  /\ UNCHANGED <<flow, pc, inv, input, response, result, calls, mainVars>>

exampleWeatherChatReturn ==
  /\ flow = "exampleWeatherChat"
  /\ pc = "awaiting"
  /\ \E t \in Texts :
       /\ response' = Some(Resolved(t, None, <<>>))
       /\ stdout' = Append(stdout, [label |-> "Response:", value |-> t])
  /\ result' = Returned(None)
  /\ pc' = "done"
  /\ UNCHANGED <<flow, inv, input, weather, calls, toolCalls, mainPc, stderr, exitCode>>

RemoteCallFailsAndRetries ==
  /\ pc = "awaiting"
  /\ Len(SelectSeq(calls, LAMBDA c : c.inv = inv)) = 1
  /\ \E e \in RemoteErrors : response' = Some(Rejected(e))
  /\ calls' = Append(calls, calls[Len(calls)])
  /\ UNCHANGED <<flow, pc, inv, input, weather, result, toolCalls, mainVars>>

\* the pending remote call rejects; no handler catches, so the invocation rejects
RemoteCallFails ==
  /\ pc = "awaiting"
  /\ \E e \in RemoteErrors :
       /\ response' = Some(Rejected(e))
       /\ result' = Thrown(e)
  /\ pc' = "failed"
  /\ UNCHANGED <<flow, inv, input, weather, calls, toolCalls, mainVars>>

MainPrompt == <<"Explain", "Vertex", "AI", "in", "simple", "terms.">>
MainRecipeInput ==
  [ingredient |-> <<"avocado">>, dietaryRestrictions |-> Some(<<"vegetarian">>)]

\* main() runs up to its first await
MainStart ==
  /\ mainPc = "init"
  /\ flow = "none"
  /\ mainPc' = "explain"
  /\ Call("vertexAIExplanationFlow", Some([prompt |-> Some(MainPrompt)]))
  /\ UNCHANGED <<calls, stdout, stderr, exitCode>>

MainAfterExplanationUnawaited ==
  /\ mainPc = "explain"
  /\ pc \in {"idle", "awaiting", "done"}
  /\ stdout' = Append(stdout, [label |-> "Vertex AI Response:", value |-> None])
  /\ mainPc' = "recipe"
  /\ Call("recipeGeneratorFlow", Some(MainRecipeInput))
  /\ UNCHANGED <<calls, stderr, exitCode>>

\* the explanation flow resolved: print it, invoke the recipe flow
MainAfterExplanation ==
  /\ mainPc = "explain"
  /\ pc = "done"
  /\ stdout' = Append(stdout, [label |-> "Vertex AI Response:",
                               value |-> Some(result.value[1].text)])
  /\ mainPc' = "recipe"
  /\ Call("recipeGeneratorFlow", Some(MainRecipeInput))
  /\ UNCHANGED <<calls, stderr, exitCode>>

\* the recipe flow resolved: print it and the header, call exampleWeatherChat
MainAfterRecipe ==
  /\ mainPc = "recipe"
  /\ pc = "done"
  /\ stdout' = stdout \o <<[label |-> "Recipe:", value |-> result.value],
                           [label |-> "--- Weather Chat Example ---", value |-> None]>>
  /\ mainPc' = "chat"
  /\ Call("exampleWeatherChat", None)
  /\ UNCHANGED <<calls, stderr, exitCode>>

\* exampleWeatherChat resolved: main resolves and the process ends
MainReturn ==
  /\ mainPc = "chat"
  /\ pc = "done"
  /\ mainPc' = "exited"
  /\ exitCode' = Some(0)
  /\ UNCHANGED <<flow, pc, inv, input, weather, response, result, calls,
                 toolCalls, stdout, stderr>>

MainUncaught ==
  /\ mainPc \in {"explain", "recipe", "chat"}
  /\ pc = "failed"
  /\ stderr' = Append(stderr, result.error[1])
  /\ mainPc' = "exited"
  /\ exitCode' = Some(1)
  /\ UNCHANGED <<flow, pc, inv, input, weather, response, result, calls,
                 toolCalls, stdout>>

\* an awaited step rejected: main rejects, .catch(console.error) handles the
\* rejection, and the process ends normally
MainCatch ==
  /\ mainPc \in {"explain", "recipe", "chat"}
  /\ pc = "failed"
  /\ stderr' = Append(stderr, result.error[1])
  /\ mainPc' = "exited"
  /\ exitCode' = Some(0)
  /\ UNCHANGED <<flow, pc, inv, input, weather, response, result, calls,
                 toolCalls, stdout>>

Next ==
  \/ Invoke
  \/ vertexAIExplanationFlowStart
  \/ vertexAIExplanationFlowReturn
  \/ vertexAIExplanationImageFlowStart
  \/ vertexAIExplanationImageFlowReturn
  \/ listModelsStart
  \/ listModelsReturn
  \/ weatherFlowStart
  \/ weatherFlowReturn
  \/ recipeGeneratorFlowStart
  \/ recipeGeneratorFlowSettle
  \/ exampleWeatherChatStart
  \/ exampleWeatherChatTool
  \/ exampleWeatherChatReturn
  \/ RemoteCallFails
  \/ MainStart
  \/ MainAfterExplanation
  \/ MainAfterRecipe
  \/ MainReturn
  \/ MainCatch

Spec == Init /\ [][Next]_vars

----------------------------------------------------------------------------
(* Properties *)

\* the remote calls issued by invocation n
CallsOf(n) == SelectSeq(calls, LAMBDA c : c.inv = n)

\* the part of a name after its last "/" (the whole name when it has none)
TrailingSegment(name) ==
  LET slashes == {i \in 1 .. Len(name) : name[i] = "/"}
      last == IF slashes = {} THEN 0
              ELSE CHOOSE i \in slashes : \A j \in slashes : j <= i
  IN SubSeq(name, last + 1, Len(name))

\* sub occurs in s
Contains(s, sub) ==
  \E i \in 1 .. Len(s) - Len(sub) + 1 : SubSeq(s, i, i + Len(sub) - 1) = sub

ListModelsDone == flow = "list-models" /\ pc = "done"
Listed == response[1].models
Reshaped == result.value[1].allListedModels

\* C1: whatever the two random draws and the location, every getWeather
\* invocation (by weatherFlow or by the model during the chat) returns an
\* integer temperature t with 50 <= t < 80 and one of the four conditions.
C1_WeatherInRange ==
  weather # None =>
    /\ weather[1].temperature \in 50 .. 79
    /\ weather[1].condition \in {"sunny", "cloudy", "rainy", "snowy"}

C1_Witness ==
  /\ flow = "weatherFlow"
  /\ weather # None
  /\ weather[1].temperature = 79
  /\ weather[1].condition = "snowy"

\* C2: when weatherFlow has completed, the temperature and condition of its
\* output are those the tool returned in this invocation, and its location
\* is the input location.
C2_OutputEqualsTool ==
  (flow = "weatherFlow" /\ pc = "done") =>
    /\ result.error = None
    /\ result.value[1].temperature = weather[1].temperature
    /\ result.value[1].condition = weather[1].condition
    /\ result.value[1].location = input[1].location

C2_Witness ==
  /\ flow = "weatherFlow"
  /\ pc = "done"
  /\ input[1].location = <<"Paris">>
  /\ result.value[1].temperature = 63
  /\ result.value[1].condition = "rainy"

\* C3: once the generate call of recipeGeneratorFlow has resolved, the flow
\* has failed with "Failed to generate recipe" and returned nothing when the
\* response carries no structured payload, and has returned exactly the
\* payload otherwise.
C3_RecipeAllOrNothing ==
  (flow = "recipeGeneratorFlow" /\ response # None /\ response[1].ok) =>
    IF response[1].output = None
    THEN /\ pc = "failed"
         /\ result.error = Some(FailedToGenerate)
         /\ result.value = None
    ELSE /\ pc = "done"
         /\ result.error = None
         /\ result.value = response[1].output

C3_Witness ==
  /\ flow = "recipeGeneratorFlow"
  /\ response # None
  /\ response[1].ok
  /\ response[1].output = None
  /\ pc = "failed"

\* main has ended because one of its steps failed
MainFailed == mainPc = "exited" /\ pc = "failed"

\* C4 as claimed: when a flow invoked by main fails, the process ends with a
\* non-zero exit status.
C4_ExitsNonZero ==
  MainFailed => (exitCode # None /\ exitCode[1] # 0)

\* C4 as amended: when a flow invoked by main fails, the failure is handled
\* by the catch handler of the entry point, which writes it to the error
\* console, and the process ends with exit status 0.
C4_CaughtAndExitsZero ==
  MainFailed =>
    /\ exitCode = Some(0)
    /\ stderr = <<result.error[1]>>

C4_Witness ==
  /\ MainFailed
  /\ flow = "recipeGeneratorFlow"
  /\ result.error = Some(FailedToGenerate)

MainOrder ==
  {<<"init", "explain">>, <<"explain", "recipe">>, <<"recipe", "chat">>,
   <<"chat", "exited">>, <<"explain", "exited">>, <<"recipe", "exited">>}

MainStepOf ==
  [explain |-> "vertexAIExplanationFlow", recipe |-> "recipeGeneratorFlow",
   chat |-> "exampleWeatherChat"]

\* C5: main runs explanation flow, recipe flow, weather chat in this order;
\* a step is started only when the previous one has completed successfully,
\* and once a step has failed nothing more is started or printed.
C5_MainSequential ==
  /\ [](mainPc \in {"explain", "recipe", "chat"} =>
          /\ flow = MainStepOf[mainPc]
          /\ \A i \in 1 .. Len(calls) : calls[i].inv = i
          /\ \A i \in 1 .. Len(calls) :
               calls[i].flow = <<"vertexAIExplanationFlow", "recipeGeneratorFlow",
                                 "exampleWeatherChat">>[i])
  /\ [][/\ mainPc' # mainPc => <<mainPc, mainPc'>> \in MainOrder
        /\ (mainPc # "init" /\ inv' # inv) =>
             (pc = "done" /\ mainPc' \in {"recipe", "chat"} /\ mainPc' # mainPc)
        /\ (mainPc' \in {"recipe", "chat"} /\ mainPc' # mainPc) => pc = "done"
        /\ (mainPc # "init" /\ pc = "failed") =>
             (inv' = inv /\ calls' = calls /\ stdout' = stdout /\ pc' = "failed")
       ]_vars

C5_Witness ==
  /\ MainFailed
  /\ flow = "recipeGeneratorFlow"
  /\ Len(stdout) = 1
  /\ Len(calls) = 2

\* every invocation starts idle, and a settled invocation never moves again
InvocationFrame ==
  /\ inv' # inv => (pc' = "idle" /\ calls' = calls)
  /\ (inv' = inv /\ pc \in {"done", "failed"}) =>
       (pc' = pc /\ calls' = calls /\ result' = result)

\* a remote call that rejects fails the invocation with that failure and is
\* not issued again
FailurePropagates ==
  (response' # response /\ response' # None /\ ~response'[1].ok) =>
    /\ pc = "awaiting"
    /\ pc' = "failed"
    /\ result' = Thrown(response'[1].error[1])
    /\ calls' = calls

\* C6 as claimed: every flow invocation moves idle -> awaiting -> done|failed
\* and by no other edge, has issued exactly one remote call once it has left
\* idle, never re-issues a call, and a failed remote call fails the flow with
\* that failure.
C6_FlowMachine ==
  /\ [](flow \in Flows =>
          Len(CallsOf(inv)) = (IF pc = "idle" THEN 0 ELSE 1))
  /\ [][/\ InvocationFrame
        /\ FailurePropagates
        /\ (flow \in Flows /\ inv' = inv /\ pc' # pc) =>
             <<pc, pc'>> \in {<<"idle", "awaiting">>, <<"awaiting", "done">>,
                              <<"awaiting", "failed">>}
       ]_vars

\* list-models found no list method on the plugin
FailedBeforeCall ==
  flow = "list-models" /\ pc = "failed" /\ result = Thrown(NoListMethod)

\* C6 as amended: every flow invocation moves idle -> awaiting -> done|failed,
\* or, for list-models when the plugin has no list method, idle -> failed
\* without any remote call; by no other edge.  It has issued exactly one
\* remote call once it has left idle by the first edge, never re-issues a
\* call, and a failed remote call fails the flow with that failure.
C6_FlowMachineAmended ==
  /\ [](flow \in Flows =>
          Len(CallsOf(inv)) = (IF pc = "idle" \/ FailedBeforeCall THEN 0 ELSE 1))
  /\ [][/\ InvocationFrame
        /\ FailurePropagates
        /\ (flow \in Flows /\ inv' = inv /\ pc' # pc) =>
             \/ <<pc, pc'>> \in {<<"idle", "awaiting">>, <<"awaiting", "done">>,
                                 <<"awaiting", "failed">>}
             \/ pc = "idle" /\ FailedBeforeCall' /\ calls' = calls
       ]_vars

C6_Witness ==
  /\ flow \in Flows
  /\ pc = "failed"
  /\ response # None
  /\ ~response[1].ok
  /\ result = Thrown(response[1].error[1])
  /\ Len(CallsOf(inv)) = 1

\* C7 as claimed: the label of every listed entry is the trailing segment of
\* the entry's name, also for a name with no slash or ending in a slash.
C7_LabelIsTrailingSegment ==
  ListModelsDone =>
    \A i \in 1 .. Len(Listed) :
      Reshaped[i].label = TrailingSegment(Listed[i].name)

\* C7 as amended: the label of every listed entry is the trailing segment of
\* the entry's name when that segment is not empty, and "N/A" when it is
\* empty (the empty name and every name ending in a slash).
C7_LabelOrNotAvailable ==
  ListModelsDone =>
    /\ result.value[1].listedModelsCount = Len(Listed)
    /\ Len(Reshaped) = Len(Listed)
    /\ \A i \in 1 .. Len(Listed) :
         /\ Reshaped[i].name = Listed[i].name
         /\ Reshaped[i].label =
              (IF TrailingSegment(Listed[i].name) = <<>> THEN NotAvailable
               ELSE TrailingSegment(Listed[i].name))

C7_Witness ==
  /\ ListModelsDone
  /\ Len(Listed) >= 1
  /\ Listed[1].name = Pro \o Flash \o Slash
  /\ Reshaped[1].label = NotAvailable

\* C8 as claimed: supports.image of every listed entry is true exactly when
\* the entry's name contains "vision" or "flash"; supports.text is true and
\* supports.audio false.
C8_ImageFromName ==
  ListModelsDone =>
    \A i \in 1 .. Len(Listed) :
      /\ Reshaped[i].supports.image =
           (Contains(Listed[i].name, Vision) \/ Contains(Listed[i].name, Flash))
      /\ Reshaped[i].supports.text
      /\ ~Reshaped[i].supports.audio

\* C8 as amended: supports.image of every listed entry is true exactly when
\* the trailing segment of the entry's name contains "vision" or "flash",
\* hence false for a name without "vision" or "flash"; supports.text is true
\* and supports.audio false.
C8_ImageFromTrailingSegment ==
  ListModelsDone =>
    \A i \in 1 .. Len(Listed) :
      /\ Reshaped[i].supports.image =
           (\/ Contains(TrailingSegment(Listed[i].name), Vision)
            \/ Contains(TrailingSegment(Listed[i].name), Flash))
      /\ (~Contains(Listed[i].name, Vision) /\ ~Contains(Listed[i].name, Flash))
           => ~Reshaped[i].supports.image
      /\ Reshaped[i].supports.text
      /\ ~Reshaped[i].supports.audio

C8_Witness ==
  /\ ListModelsDone
  /\ Len(Listed) >= 1
  /\ Listed[1].name = Vision \o Slash \o Pro
  /\ ~Reshaped[1].supports.image

\* C9: when weatherFlow has completed, its message is the model's text when
\* that text is not empty, and otherwise the sentence built from the input
\* location and the tool's condition and temperature; it is never empty.
C9_MessageOrSentence ==
  (flow = "weatherFlow" /\ pc = "done") =>
    LET text == response[1].text
        message == result.value[1].message
    IN /\ (text # None /\ text[1] # <<>>) => message = text[1]
       /\ (text = None \/ text = Some(<<>>)) =>
            message = <<"The", "weather", "in">> \o input[1].location
                        \o <<"is", weather[1].condition, "with", "a",
                             "temperature", "of">>
                        \o NumberToString(weather[1].temperature) \o <<"deg-F.">>
       /\ message # <<>>

C9_Witness ==
  /\ flow = "weatherFlow"
  /\ pc = "done"
  /\ response[1].text = Some(<<>>)
  /\ input[1].location = <<"Paris">>
  /\ result.value[1].message =
       <<"The", "weather", "in", "Paris", "is", "sunny", "with", "a",
         "temperature", "of", "5", "0", "deg-F.">>

\* the prompt a caller supplied, if any
Supplied == input[1].prompt # None /\ input[1].prompt[1] # <<>>

\* C10: both explanation flows send the caller's prompt when one is supplied
\* and their own default prompt when it is absent or empty, and on success
\* return the model's text, or the empty string when the model gave none.
C10_PromptAndText ==
  (flow \in {"vertexAIExplanationFlow", "vertexAIExplanationImageFlow"}
     /\ pc # "idle") =>
    /\ Len(CallsOf(inv)) = 1
    /\ CallsOf(inv)[1].req.prompt =
         (IF Supplied THEN input[1].prompt[1]
          ELSE IF flow = "vertexAIExplanationFlow"
               THEN <<"Explain", "Vertex", "AI", "in", "simple", "terms.">>
               ELSE <<"Explain", "the", "image", "in", "simple", "terms.">>)
    /\ pc = "done" =>
         result.value[1] =
           [text |-> IF response[1].text = None THEN <<>> ELSE response[1].text[1]]

C10_Witness ==
  /\ flow = "vertexAIExplanationImageFlow"
  /\ pc = "done"
  /\ input[1].prompt = Some(<<>>)
  /\ response[1].text = None
  /\ result.value[1].text = <<>>

====
